---- MODULE Spec2Model ----
(***************************************************************************)
(* confluence-sync (src/bin/main.py): one run of the script that publishes *)
(* markdown files as Confluence pages.                                     *)
(*                                                                         *)
(* Python values are modelled as follows.                                  *)
(*   str        a sequence of one-character strings                        *)
(*   None / x   the empty sequence <<>> / the one-element sequence <<x>>   *)
(*   dict       a function whose DOMAIN is the set of keys                 *)
(*   tuple      [type |-> "tuple", items |-> <<...>>]                      *)
(* One action is one step of the run; a step that raises an exception      *)
(* nobody catches ends the run with pc = "crashed" (exit status 1).        *)
(***************************************************************************)
EXTENDS Integers, Sequences, FiniteSets

VARIABLES
    environ,        \* os.environ: the settings that are set, with their values
    tree,           \* the (root, file) pairs os.walk yields, in its order
    writeStatus,    \* the status the service answers a create / update with
    pc,             \* where the run is
    li,             \* load_environment_variables: index of the next required name
    envs,           \* the dict load_environment_variables builds
    mode,           \* which branch main took
    walked,         \* os.walk was started
    exclude_files,  \* process_directory: the list of excluded names
    wi,             \* process_directory: index of the next walk entry
    md_file,        \* process_file: its argument
    html,           \* process_file: the rendered content
    page_title,     \* process_file: the derived title
    page_info,      \* process_file: what find_page_by_title returned
    links,          \* the list of "title: link" entries
    calls,          \* history: the arguments process_file was called with
    reads,          \* history: the files opened
    http,           \* history: the HTTP calls issued, with their outcome
    log,            \* history: the lines printed
    printed,        \* <<>>, or <<links>> once main printed the list
    exitCode        \* <<>> while running, then <<status>>

vars == <<environ, tree, writeStatus, pc, li, envs, mode, walked, exclude_files,
          wi, md_file, html, page_title, page_info, links, calls, reads, http,
          log, printed, exitCode>>

-----------------------------------------------------------------------------
(* Bounds of the model *)

\* at most this many required settings are missing or empty in a run
MaxBad == 1
\* the version numbers a lookup reports are 0..MaxVersion
MaxVersion == 2

(* Program constants *)

\* the only status the three calls treat as success
StatusOK == 200

-----------------------------------------------------------------------------
(* Strings *)

None == <<>>
Some(x) == <<x>>

S_md == <<".", "m", "d">>
S_a_md == <<"a", ".", "m", "d">>
S_b_md == <<"b", ".", "m", "d">>
S_c_txt == <<"c", ".", "t", "x", "t">>
S_docs == <<"d", "o", "c", "s">>
S_ws == <<"/", "w">>
S_val == <<"v">>

\* str.endswith
EndsWith(s, suffix) ==
    /\ Len(s) >= Len(suffix)
    /\ SubSeq(s, Len(s) - Len(suffix) + 1, Len(s)) = suffix

\* str.split(sep) for a one-character separator: "" gives [""]
RECURSIVE Split(_, _)
Split(s, sep) ==
    IF \E k \in 1..Len(s) : s[k] = sep
    THEN LET k == CHOOSE j \in 1..Len(s) :
                      /\ s[j] = sep
                      /\ \A h \in 1..(j - 1) : s[h] # sep
         IN  <<SubSeq(s, 1, k - 1)>> \o Split(SubSeq(s, k + 1, Len(s)), sep)
    ELSE <<s>>

\* os.path.splitext(name)[0]: cut at the last dot, unless only dots precede it
SplitExtRoot(name) ==
    LET dots == {k \in 1..Len(name) : name[k] = "."}
    IN  IF dots = {} THEN name
        ELSE LET k == CHOOSE j \in dots : \A h \in dots : h <= j
             IN  IF \A h \in 1..(k - 1) : name[h] = "." THEN name
                 ELSE SubSeq(name, 1, k - 1)

\* os.path.join(a, b) as the pair it denotes; os.path.basename takes .name
JoinPath(dir, name) == [dir |-> dir, name |-> name]

\* the text of a file, and MarkdownIt().render of it
FileText(path) == path.name
Render(md) == <<"<", "p", ">">> \o md \o <<"<", "/", "p", ">">>

-----------------------------------------------------------------------------
(* The process environment and the directory tree of a run *)

RequiredNames == <<"cloud", "user", "token", "parent_page_id", "space_id">>
Required == {RequiredNames[k] : k \in 1..Len(RequiredNames)}

EmptyDict == [k \in {} |-> None]
Put(d, k, v) == [x \in (DOMAIN d) \cup {k} |-> IF x = k THEN v ELSE d[x]]

\* os.environ.get(name): None when the variable is not set
EnvironGet(name) == IF name \in DOMAIN environ THEN Some(environ[name]) ELSE None

\* mutant of Falsy: the test `x is None`, which lets an empty value through
Falsy_NoneOnly(x) == x = None

\* `not x` for x a str or None
Falsy(x) == x = None \/ x[1] = <<>>

\* r: for each required name "absent", "empty" or "set"; the others None or Some(value)
MkEnviron(r, f, d, x, w) ==
    LET opt == [input_file |-> f, input_md_directory |-> d, exclude_files |-> x,
                GITHUB_WORKSPACE |-> w]
        dom == {n \in Required : r[n] # "absent"}
                   \cup {n \in DOMAIN opt : opt[n] # None}
    IN  [n \in dom |-> IF n \in Required
                       THEN (IF r[n] = "empty" THEN <<>> ELSE S_val)
                       ELSE opt[n][1]]

RequiredChoices ==
    {r \in [Required -> {"absent", "empty", "set"}] :
        Cardinality({n \in Required : r[n] # "set"}) <= MaxBad}

ExcludeChoices ==
    {None, Some(<<>>), Some(S_b_md), Some(S_a_md \o <<",">> \o S_b_md)}

Environs ==
    {MkEnviron(r, f, d, x, w) :
        r \in RequiredChoices,
        f \in {None, Some(S_a_md)},
        d \in {None, Some(S_docs)},
        x \in ExcludeChoices,
        w \in {None, Some(S_ws)}}

\* the files a walk can meet: (directory below the walked root, file name)
Universe ==
    << [sub |-> <<>>, name |-> S_a_md],
       [sub |-> <<>>, name |-> S_b_md],
       [sub |-> <<>>, name |-> S_c_txt],
       [sub |-> <<"s">>, name |-> S_a_md] >>

RECURSIVE Pick(_, _)
Pick(present, k) ==
    IF k > Len(Universe) THEN <<>>
    ELSE (IF k \in present THEN <<Universe[k]>> ELSE <<>>) \o Pick(present, k + 1)

Trees == {Pick(present, 1) : present \in SUBSET (1..Len(Universe))}

WriteStatuses == {StatusOK, 403}

-----------------------------------------------------------------------------
(* The responses of the service *)

Transport == [outcome |-> "RequestException", status |-> 0, results |-> <<>>]
Response(status, results) ==
    [outcome |-> "response", status |-> status, results |-> results]

\* what a GET pages?title=... can answer for a document rendered as h
LookupResponses(h) ==
    {Transport}
        \cup {Response(s, <<>>) : s \in {StatusOK, 404, 500}}
        \cup {Response(StatusOK, <<[id |-> <<"p", "1">>, version |-> v, storage |-> c]>>) :
                 v \in 0..MaxVersion, c \in {h, S_val}}

\* what a POST or PUT can answer
WriteResponses == {Transport, Response(writeStatus, <<>>)}

Call(method, title, resp, sent) ==
    [method |-> method, title |-> title, resp |-> resp, sent |-> sent,
     ncalls |-> Len(calls)]

Line(msg, title, code) == [msg |-> msg, title |-> title, code |-> code]

-----------------------------------------------------------------------------
Init ==
    /\ environ \in Environs
    /\ tree \in Trees
    /\ writeStatus \in WriteStatuses
    /\ pc = "load"
    /\ li = 1
    /\ envs = EmptyDict
    /\ mode = "none"
    /\ walked = FALSE
    /\ exclude_files = <<>>
    /\ wi = 1
    /\ md_file = None
    /\ html = None
    /\ page_title = None
    /\ page_info = None
    /\ links = <<>>
    /\ calls = <<>>
    /\ reads = <<>>
    /\ http = <<>>
    /\ log = <<>>
    /\ printed = None
    /\ exitCode = None

inputs == <<environ, tree, writeStatus>>
fileVars == <<md_file, html, page_title, page_info>>
history == <<calls, reads, http>>

\* sys.exit(1) after printing line
SysExit(line) ==
    /\ pc' = "exited"
    /\ exitCode' = Some(1)
    /\ log' = Append(log, line)

\* an exception nobody catches: traceback, exit status 1
Uncaught(exc) ==
    /\ pc' = "crashed"
    /\ exitCode' = Some(1)
    /\ log' = Append(log, Line(<<"Traceback", exc>>, None, None))

(* load_environment_variables *)

\* one turn of the loop over env_var_names
LoadRequired ==
    /\ pc = "load"
    /\ li <= Len(RequiredNames)
    /\ LET name == RequiredNames[li]
           value == EnvironGet(name)
       IN  /\ envs' = Put(envs, name, value)
           /\ IF Falsy(value)
              THEN /\ SysExit(Line(<<"Missing value for", name>>, None, None))
                   /\ li' = li
              ELSE /\ li' = li + 1
                   /\ UNCHANGED <<pc, exitCode, log>>
    /\ UNCHANGED <<inputs, mode, walked, exclude_files, wi, fileVars, links,
                   history, printed>>

CopyIfSet(d, name) ==
    IF name \in DOMAIN environ THEN Put(d, name, Some(environ[name])) ELSE d

\* the optional settings, then return envs
LoadOptional ==
    /\ pc = "load"
    /\ li > Len(RequiredNames)
    /\ envs' = CopyIfSet(CopyIfSet(CopyIfSet(envs, "input_file"),
                                   "input_md_directory"), "exclude_files")
    /\ pc' = "main"
    /\ UNCHANGED <<inputs, li, mode, walked, exclude_files, wi, fileVars, links,
                   history, log, printed, exitCode>>

(* main, lines 191-202 *)

\* mutant of SelectMode: the two tests in the other order
SelectMode_DirectoryFirst(e) ==
    IF "input_md_directory" \in DOMAIN e THEN "directory"
    ELSE IF "input_file" \in DOMAIN e THEN "file"
    ELSE "none"

\* the if / elif / else over the optional settings
SelectMode(e) ==
    IF "input_file" \in DOMAIN e THEN "file"
    ELSE IF "input_md_directory" \in DOMAIN e THEN "directory"
    ELSE "none"

\* exclude_files of process_directory
ExcludeList(e) ==
    IF "exclude_files" \in DOMAIN e /\ ~Falsy(e["exclude_files"])
    THEN Split(e["exclude_files"][1], ",")
    ELSE <<>>

\* main picks its branch; the branch taken resolves its path against the
\* workspace root, and os.environ["GITHUB_WORKSPACE"] raises KeyError when unset
MainDispatch ==
    /\ pc = "main"
    /\ mode' = SelectMode(envs)
    /\ IF mode' = "none"
       THEN /\ SysExit(Line(<<"No specific input provided.">>, None, None))
            /\ UNCHANGED <<walked, exclude_files, md_file, calls>>
       ELSE IF "GITHUB_WORKSPACE" \notin DOMAIN environ
       THEN /\ Uncaught("KeyError")
            /\ UNCHANGED <<walked, exclude_files, md_file, calls>>
       ELSE IF mode' = "file"
       THEN /\ md_file' = Some(JoinPath(<<environ["GITHUB_WORKSPACE"]>>,
                                        envs["input_file"][1]))
            /\ calls' = Append(calls, md_file'[1])
            /\ pc' = "pf_read"
            /\ UNCHANGED <<walked, exclude_files, exitCode, log>>
       ELSE /\ exclude_files' = ExcludeList(envs)
            /\ walked' = TRUE
            /\ pc' = "walk"
            /\ UNCHANGED <<md_file, calls, exitCode, log>>
    /\ UNCHANGED <<inputs, li, envs, wi, html, page_title, page_info, links,
                   reads, http, printed>>

(* process_directory *)

InList(x, list) == \E k \in 1..Len(list) : list[k] = x

\* the test of line 57
Selected(f, excluded) == EndsWith(f, S_md) /\ ~InList(f, excluded)

\* one turn of the two loops over os.walk, or the return when it is exhausted
WalkNext ==
    /\ pc = "walk"
    /\ IF wi > Len(tree)
       THEN /\ pc' = "print"
            /\ UNCHANGED <<wi, md_file, calls>>
       ELSE /\ wi' = wi + 1
            /\ IF Selected(tree[wi].name, exclude_files)
               THEN /\ md_file' = Some(JoinPath(
                            <<environ["GITHUB_WORKSPACE"],
                              envs["input_md_directory"][1], tree[wi].sub>>,
                            tree[wi].name))
                    /\ calls' = Append(calls, md_file'[1])
                    /\ pc' = "pf_read"
               ELSE UNCHANGED <<pc, md_file, calls>>
    /\ UNCHANGED <<inputs, li, envs, mode, walked, exclude_files, html,
                   page_title, page_info, links, reads, http, log, printed,
                   exitCode>>

(* process_file *)

\* where process_file returns to
ReturnPoint == IF mode = "file" THEN "print" ELSE "walk"

\* lines 71-76; open and read raise OSError or UnicodeDecodeError, which the
\* except clause of line 154 does not catch
ReadAndRender ==
    /\ pc = "pf_read"
    /\ \E ok \in BOOLEAN :
          IF ok
          THEN /\ reads' = Append(reads, md_file[1])
               /\ html' = Some(Render(FileText(md_file[1])))
               /\ page_title' = Some(SplitExtRoot(md_file[1].name))
               /\ pc' = "pf_lookup"
               /\ UNCHANGED <<exitCode, log>>
          ELSE /\ Uncaught("OSError")
               /\ UNCHANGED <<reads, html, page_title>>
    /\ UNCHANGED <<inputs, li, envs, mode, walked, exclude_files, wi, md_file,
                   page_info, links, calls, http, printed>>

\* what find_page_by_title returns for a response: a tuple of three, or of two
FindPageByTitle(resp) ==
    IF resp.status = StatusOK /\ resp.results # <<>>
    THEN [type |-> "tuple",
          items |-> <<Some(resp.results[1].id), Some(resp.results[1].version),
                      Some(resp.results[1].storage)>>]
    ELSE [type |-> "tuple", items |-> <<None, None>>]

\* the exception of obj[key] for a str key: a tuple takes integers and slices only
SubscriptError(obj, key) ==
    IF obj.type = "tuple" THEN "TypeError"
    ELSE IF key \notin DOMAIN obj.items THEN "KeyError"
    ELSE "none"

\* mutant of ExceptRequestException: the handler prints and falls through to
\* the return of line 158
ExceptRequestException_NoExit ==
    /\ log' = Append(log, Line(<<"An error occurred during the HTTP request">>,
                               None, None))
    /\ pc' = ReturnPoint
    /\ UNCHANGED exitCode

\* lines 154-156
ExceptRequestException ==
    SysExit(Line(<<"An error occurred during the HTTP request">>, None, None))

\* line 78: the GET, and the return of find_page_by_title
Lookup ==
    /\ pc = "pf_lookup"
    /\ \E resp \in LookupResponses(html[1]) :
          /\ http' = Append(http, Call("GET", page_title[1], resp, None))
          /\ IF resp.outcome = "RequestException"
             THEN /\ ExceptRequestException
                  /\ UNCHANGED page_info
             ELSE /\ page_info' = Some(FindPageByTitle(resp))
                  /\ pc' = "pf_decide"
                  /\ UNCHANGED <<exitCode, log>>
    /\ UNCHANGED <<inputs, li, envs, mode, walked, exclude_files, wi, md_file,
                   html, page_title, links, calls, reads, printed>>

\* lines 98-118: the PUT and the branch on its status
Update(pid, new_version, resp) ==
    /\ http' = Append(http, Call("PUT", page_title[1], resp,
                   [id |-> pid, version |-> new_version, title |-> page_title[1],
                    body |-> html[1]]))
    /\ IF resp.outcome = "RequestException"
       THEN /\ ExceptRequestException
            /\ UNCHANGED links
       ELSE /\ pc' = ReturnPoint
            /\ UNCHANGED exitCode
            /\ IF resp.status = StatusOK
               THEN /\ links' = Append(links, [title |-> page_title[1],
                                               link |-> "webui"])
                    /\ log' = Append(log, Line(<<"Content update successful.">>,
                                               page_title, new_version))
               ELSE /\ log' = Append(log, Line(<<"Failed. HTTP status code">>,
                                               page_title, Some(resp.status)))
                    /\ UNCHANGED links

\* lines 119-121
Identical ==
    /\ log' = Append(log, Line(<<"Identical content, no update required.">>,
                               page_title, None))
    /\ pc' = ReturnPoint
    /\ UNCHANGED <<links, http, exitCode>>

\* lines 123-153: the POST and the branch on its status
Create(resp) ==
    /\ http' = Append(http, Call("POST", page_title[1], resp,
                   [spaceId |-> envs["space_id"][1],
                    parentId |-> envs["parent_page_id"][1],
                    title |-> page_title[1], body |-> html[1]]))
    /\ IF resp.outcome = "RequestException"
       THEN /\ ExceptRequestException
            /\ UNCHANGED links
       ELSE /\ pc' = ReturnPoint
            /\ UNCHANGED exitCode
            /\ IF resp.status = StatusOK
               THEN /\ links' = Append(links, [title |-> page_title[1],
                                               link |-> "webui"])
                    /\ log' = Append(log, Line(<<"Content upload successful.">>,
                                               page_title, None))
               ELSE /\ log' = Append(log, Line(<<"Failed. HTTP status code">>,
                                               page_title, Some(resp.status)))
                    /\ UNCHANGED links

\* lines 80-153: page_info is subscripted with a str first of all (line 80)
Decide ==
    /\ pc = "pf_decide"
    /\ IF SubscriptError(page_info[1], "current_version") # "none"
       THEN /\ Uncaught(SubscriptError(page_info[1], "current_version"))
            /\ UNCHANGED <<links, http>>
       ELSE LET current_version == page_info[1].items["current_version"]
                page_id == page_info[1].items["page_id"]
                existing_content == page_info[1].items["existing_content"]
                new_version ==
                    IF current_version # None /\ current_version[1] # 0
                    THEN Some(current_version[1] + 1)
                    ELSE None
            IN  IF ~Falsy(page_id)
                THEN IF Some(html[1]) # existing_content
                     THEN \E resp \in WriteResponses :
                              Update(page_id[1], new_version, resp)
                     ELSE Identical
                ELSE \E resp \in WriteResponses : Create(resp)
    /\ UNCHANGED <<inputs, li, envs, mode, walked, exclude_files, wi, fileVars,
                   calls, reads, printed>>

\* main, line 204
PrintLinks ==
    /\ pc = "print"
    /\ printed' = Some(links)
    /\ pc' = "done"
    /\ exitCode' = Some(0)
    /\ UNCHANGED <<inputs, li, envs, mode, walked, exclude_files, wi, fileVars,
                   links, history, log>>

Next ==
    \/ LoadRequired
    \/ LoadOptional
    \/ MainDispatch
    \/ WalkNext
    \/ ReadAndRender
    \/ Lookup
    \/ Decide
    \/ PrintLinks

Spec == Init /\ [][Next]_vars

-----------------------------------------------------------------------------
(* Vocabulary of the properties *)

Terminated == pc \in {"done", "exited", "crashed"}

\* the five required settings are present and non-empty
ConfigValid == \A n \in Required : n \in DOMAIN environ /\ environ[n] # <<>>

WorkspaceSet == "GITHUB_WORKSPACE" \in DOMAIN environ

\* the k-th call of process_file has returned, or the run ended in it
Finished(k) == k < Len(calls) \/ pc \in {"walk", "print", "done", "exited", "crashed"}

\* the HTTP calls the k-th call of process_file issued
CallsOf(k, methods) ==
    {j \in DOMAIN http : http[j].ncalls = k /\ http[j].method \in methods}

HtmlOf(k) == Render(FileText(calls[k]))
TitleOf(k) == SplitExtRoot(calls[k].name)

\* the lookup of the k-th call was answered, and with what
LookupAnswered(k) ==
    \E j \in CallsOf(k, {"GET"}) : http[j].resp.outcome = "response"
LookupOf(k) == http[CHOOSE j \in CallsOf(k, {"GET"}) : TRUE].resp
Found(k) ==
    /\ LookupAnswered(k)
    /\ LookupOf(k).status = StatusOK
    /\ LookupOf(k).results # <<>>
Miss(k) ==
    /\ LookupAnswered(k)
    /\ LookupOf(k).status = StatusOK
    /\ LookupOf(k).results = <<>>

\* the run ended abnormally in the k-th call of process_file, after its lookup
CrashedIn(k) == pc = "crashed" /\ k = Len(calls) /\ CallsOf(k, {"GET"}) # {}

NoTransportFailure == \A j \in DOMAIN http : http[j].resp.outcome = "response"
Logged(line) == \E j \in DOMAIN log : log[j] = line
FilesReadable == ~Logged(Line(<<"Traceback", "OSError">>, None, None))

\* every link comes from a write the service answered with 200
LinksFromWrites ==
    Len(links) = Cardinality({j \in DOMAIN http :
                                  /\ http[j].method \in {"PUT", "POST"}
                                  /\ http[j].resp.status = StatusOK})

\* the files the claim of the enumerator selects
Excluded ==
    IF "exclude_files" \in DOMAIN environ
    THEN Split(environ["exclude_files"], ",") ELSE <<>>
Expected ==
    {JoinPath(<<environ["GITHUB_WORKSPACE"], environ["input_md_directory"],
                tree[k].sub>>, tree[k].name) :
        k \in {h \in DOMAIN tree :
                  /\ EndsWith(tree[h].name, S_md)
                  /\ \A e \in DOMAIN Excluded : Excluded[e] # tree[h].name}}

-----------------------------------------------------------------------------
(* The claims *)

\* C1: a call of process_file whose lookup found a page with other content
\* issues exactly one PUT and no POST, and the PUT carries the found version + 1.
C1_Claim ==
    \A k \in DOMAIN calls :
        (Finished(k) /\ Found(k) /\ LookupOf(k).results[1].storage # HtmlOf(k))
            => /\ Cardinality(CallsOf(k, {"PUT"})) = 1
               /\ CallsOf(k, {"POST"}) = {}
               /\ \A j \in CallsOf(k, {"PUT"}) :
                      http[j].sent.version = Some(LookupOf(k).results[1].version + 1)

\* C2: a call of process_file whose lookup found a page with the same content
\* issues no PUT and no POST, records no link, and prints "Identical content,
\* no update required." for the title.
C2_Claim ==
    \A k \in DOMAIN calls :
        (Finished(k) /\ Found(k) /\ LookupOf(k).results[1].storage = HtmlOf(k))
            => /\ CallsOf(k, {"PUT", "POST"}) = {}
               /\ LinksFromWrites
               /\ Logged(Line(<<"Identical content, no update required.">>,
                              Some(TitleOf(k)), None))

\* C3: a call of process_file whose lookup answered 200 with no result issues
\* exactly one POST, with the space id, the parent id, the title and the rendered
\* content, and no PUT, and the run does not end abnormally in it.
C3_Claim ==
    \A k \in DOMAIN calls :
        (Finished(k) /\ Miss(k))
            => /\ Cardinality(CallsOf(k, {"POST"})) = 1
               /\ CallsOf(k, {"PUT"}) = {}
               /\ \A j \in CallsOf(k, {"POST"}) :
                      http[j].sent = [spaceId |-> environ["space_id"],
                                      parentId |-> environ["parent_page_id"],
                                      title |-> TitleOf(k), body |-> HtmlOf(k)]
               /\ ~CrashedIn(k)

\* C4: with a required setting missing or empty the run stops in
\* load_environment_variables, at the first such setting, with exit status 1,
\* and no file is read and no HTTP call issued; whenever an HTTP call has been
\* issued, the five required settings are present and non-empty.
C4_MissingSettingIsFatal ==
    /\ http # <<>> => ConfigValid
    /\ ~ConfigValid =>
          /\ http = <<>> /\ reads = <<>> /\ calls = <<>>
          /\ ~walked /\ printed = None
          /\ pc \in {"load", "exited"}
          /\ pc = "exited" => exitCode = Some(1)
          /\ \A j \in 1..(li - 1) :
                 /\ RequiredNames[j] \in DOMAIN environ
                 /\ environ[RequiredNames[j]] # <<>>

\* C4 witness: a run stopped with status 1 on a required setting that is set
\* but empty.
C4_Witness ==
    /\ pc = "exited" /\ exitCode = Some(1)
    /\ li <= Len(RequiredNames)
    /\ RequiredNames[li] \in DOMAIN environ
    /\ environ[RequiredNames[li]] = <<>>
    /\ Logged(Line(<<"Missing value for", RequiredNames[li]>>, None, None))

\* C5: when a directory run has ended, the files process_file was called with
\* are exactly the files of the tree that end in ".md" and are not in the
\* comma-split exclusion list, each once, and no other file was read.
C5_Claim ==
    (/\ Terminated /\ mode = "directory" /\ WorkspaceSet
     /\ NoTransportFailure /\ FilesReadable)
        => /\ {calls[k] : k \in DOMAIN calls} = Expected
           /\ \A k, h \in DOMAIN calls : calls[k] = calls[h] => k = h
           /\ {reads[k] : k \in DOMAIN reads} \subseteq Expected

\* C6: when the service answers a write with a status other than 200, a call of
\* process_file that has to write prints the failure with that status, records
\* no link, and the run goes on: it ends by printing the links, with status 0.
C6_Claim ==
    \A k \in DOMAIN calls :
        (/\ Finished(k) /\ LookupAnswered(k) /\ NoTransportFailure
         /\ writeStatus # StatusOK
         /\ Found(k) => LookupOf(k).results[1].storage # HtmlOf(k))
            => /\ Logged(Line(<<"Failed. HTTP status code">>, Some(TitleOf(k)),
                              Some(writeStatus)))
               /\ links = <<>>
               /\ ~CrashedIn(k)
               /\ (Terminated /\ FilesReadable)
                      => pc = "done" /\ printed = Some(links)

\* C7: a RequestException raised by an HTTP call ends the run at once with exit
\* status 1: that call is the last HTTP call, process_file is not called and no
\* file is read after it, and the links are not printed.
C7_TransportFailureIsFatal ==
    \A j \in DOMAIN http :
        http[j].resp.outcome = "RequestException"
            => /\ j = Len(http)
               /\ pc = "exited" /\ exitCode = Some(1)
               /\ Len(calls) = http[j].ncalls
               /\ Len(reads) = http[j].ncalls
               /\ printed = None
               /\ Logged(Line(<<"An error occurred during the HTTP request">>,
                              None, None))

\* C7 witness: a directory run stopped by a RequestException while the walk
\* still had a selected file to yield.
C7_Witness ==
    /\ http # <<>>
    /\ http[Len(http)].resp.outcome = "RequestException"
    /\ pc = "exited"
    /\ mode = "directory"
    /\ \E k \in wi..Len(tree) : Selected(tree[k].name, exclude_files)

\* C8: a lookup answered with a status other than 200 and a lookup answered 200
\* with no result both lead to exactly one POST and no PUT, and the run does not
\* end abnormally in either.
C8_Claim ==
    \A k \in DOMAIN calls :
        (/\ Finished(k) /\ LookupAnswered(k)
         /\ (LookupOf(k).status # StatusOK \/ LookupOf(k).results = <<>>))
            => /\ Cardinality(CallsOf(k, {"POST"})) = 1
               /\ CallsOf(k, {"PUT"}) = {}
               /\ ~CrashedIn(k)

\* C9: with the required settings and the workspace root set, once main has
\* taken its branch: input_file set means process_file was called with exactly
\* that file and the directory is not walked, input_md_directory set or not;
\* only input_md_directory set means the directory is walked and process_file is
\* called with files of the tree only; neither set means exit status 1 with no
\* file read and no HTTP call.  input_file set never walks, whatever else holds.
C9_ModeSelection ==
    /\ "input_file" \in DOMAIN environ => ~walked
    /\ (ConfigValid /\ WorkspaceSet /\ pc \notin {"load", "main"}) =>
          IF "input_file" \in DOMAIN environ
          THEN /\ mode = "file"
               /\ calls = <<JoinPath(<<environ["GITHUB_WORKSPACE"]>>,
                                     environ["input_file"])>>
          ELSE IF "input_md_directory" \in DOMAIN environ
          THEN /\ mode = "directory" /\ walked
               /\ \A k \in DOMAIN calls :
                      \E h \in DOMAIN tree :
                          calls[k] = JoinPath(<<environ["GITHUB_WORKSPACE"],
                                                environ["input_md_directory"],
                                                tree[h].sub>>, tree[h].name)
          ELSE /\ pc = "exited" /\ exitCode = Some(1)
               /\ calls = <<>> /\ reads = <<>> /\ http = <<>>
               /\ ~walked /\ printed = None

\* C9 witness: both optional settings are set, and the single file has been
\* read and looked up.
C9_Witness ==
    /\ ConfigValid /\ WorkspaceSet
    /\ "input_file" \in DOMAIN environ
    /\ "input_md_directory" \in DOMAIN environ
    /\ tree # <<>>
    /\ reads = <<JoinPath(<<environ["GITHUB_WORKSPACE"]>>, environ["input_file"])>>
    /\ http # <<>>

\* C10: a run with valid settings, an input mode, readable files and no
\* RequestException ends with exit status 0 after printing the links; every call
\* of process_file printed exactly one outcome, and a link is recorded for
\* exactly the calls that created or updated a page.
C10_Claim ==
    (/\ Terminated /\ ConfigValid /\ WorkspaceSet /\ mode # "none"
     /\ NoTransportFailure /\ FilesReadable)
        => /\ pc = "done" /\ exitCode = Some(0)
           /\ printed = Some(links)
           /\ Len(calls) =
                 Cardinality({j \in DOMAIN log : log[j].title # None})
           /\ Len(links) =
                 Cardinality({j \in DOMAIN log :
                     log[j].msg \in {<<"Content update successful.">>,
                                     <<"Content upload successful.">>}})

====
